---- MODULE Spec2Model ----
(***************************************************************************)
(* Agent-mode command pipeline of the voice agent:                         *)
(*   voice_agent/command_parser.py  parse_llm_output,                      *)
(*                                  validate_against_catalog,              *)
(*                                  execute_parsed_command                 *)
(*   voice_agent/execute.py         execute_command, execute_chain         *)
(*                                                                         *)
(* A Python str is modelled as a sequence of one-character strings, so     *)
(* that regular-expression search, str.strip, str.split and shlex.split    *)
(* are computed character by character as the code computes them.          *)
(***************************************************************************)
EXTENDS Integers, Sequences, FiniteSets, TLC

(***************************************************************************)
(* Characters                                                              *)
(***************************************************************************)

\* The backtick character.  A TLA+ string literal cannot hold a backtick, so
\* this one character is written as the value BQ wherever it occurs.
BQ == "<backtick>"

\* The characters of the model in code-point order (str comparison, sorted()).
AsciiOrder ==
    <<"\t", "\n", "\f", " ", "!", "\"", "#", "$", "%", "&", "'", "(", ")", "*", "+", ",", "-", ".", "/", "0", "1", "2", "3", "4", "5", "6", "7", "8", "9", ":", ";", "<", "=", ">", "?", "@", "A", "B", "C", "D", "E", "F", "G", "H", "I", "J", "K", "L", "M", "N", "O", "P", "Q", "R", "S", "T", "U", "V", "W", "X", "Y", "Z", "[", "\\", "]", "^", "_", BQ, "a", "b", "c", "d", "e", "f", "g", "h", "i", "j", "k", "l", "m", "n", "o", "p", "q", "r", "s", "t", "u", "v", "w", "x", "y", "z", "{", "|", "}", "~">>

UpperChars ==
    <<"A", "B", "C", "D", "E", "F", "G", "H", "I", "J", "K", "L", "M", "N", "O", "P", "Q", "R", "S", "T", "U", "V", "W", "X", "Y", "Z">>

LowerChars ==
    <<"a", "b", "c", "d", "e", "f", "g", "h", "i", "j", "k", "l", "m", "n", "o", "p", "q", "r", "s", "t", "u", "v", "w", "x", "y", "z">>

Digits ==
    <<"0", "1", "2", "3", "4", "5", "6", "7", "8", "9">>

Range(f) == {f[i] : i \in DOMAIN f}

Ord(c) == CHOOSE i \in DOMAIN AsciiOrder : AsciiOrder[i] = c

\* Case folding of re's (?i) flag and of str.lower().
Lower(c) ==
    IF c \in Range(UpperChars)
    THEN LowerChars[CHOOSE i \in DOMAIN UpperChars : UpperChars[i] = c]
    ELSE c

LowerStr(s) == [i \in 1..Len(s) |-> Lower(s[i])]

\* str.strip() and str.split() whitespace (str.isspace): the form feed stands
\* for the characters that are white space to str and not to shlex.
IsSpace(c) == c \in {" ", "\t", "\n", "\r", "\f"}

\* The regular expression class \w.
IsWord(c) == c \in Range(UpperChars) \cup Range(LowerChars) \cup Range(Digits) \cup {"_"}

(***************************************************************************)
(* Python str operations                                                   *)
(***************************************************************************)

Min(S) == CHOOSE x \in S : \A y \in S : x <= y

Max(S) == CHOOSE x \in S : \A y \in S : y <= x

\* pat occurs in s at index i.
StartsAt(s, pat, i) ==
    /\ i >= 1
    /\ i + Len(pat) - 1 <= Len(s)
    /\ \A k \in 1..Len(pat) : s[i + k - 1] = pat[k]

\* str.find: the least index >= from at which pat occurs in s, 0 when none.
Find(s, pat, from) ==
    LET hits == {i \in from..(Len(s) - Len(pat) + 1) : StartsAt(s, pat, i)}
    IN  IF hits = {} THEN 0 ELSE Min(hits)

\* pat in s
Contains(s, pat) == Find(s, pat, 1) # 0

\* str.strip()
Strip(s) ==
    LET keep == {i \in 1..Len(s) : ~IsSpace(s[i])}
    IN  IF keep = {} THEN <<>> ELSE SubSeq(s, Min(keep), Max(keep))

\* str.split(sep) for a non-empty separator.
RECURSIVE Split(_, _)
Split(s, sep) ==
    LET i == Find(s, sep, 1)
    IN  IF i = 0
        THEN <<s>>
        ELSE <<SubSeq(s, 1, i - 1)>> \o Split(SubSeq(s, i + Len(sep), Len(s)), sep)

\* str.split() with no argument: the maximal runs of non-whitespace.
RECURSIVE SplitWS(_)
SplitWS(s) ==
    LET keep == {i \in 1..Len(s) : ~IsSpace(s[i])}
    IN  IF keep = {}
        THEN <<>>
        ELSE LET b == Min(keep)
                 stop == {i \in b..Len(s) : IsSpace(s[i])}
                 e == IF stop = {} THEN Len(s) + 1 ELSE Min(stop)
             IN  <<SubSeq(s, b, e - 1)>> \o SplitWS(SubSeq(s, e, Len(s)))

\* sep.join(parts)
RECURSIVE Join(_, _)
Join(parts, sep) ==
    IF parts = <<>> THEN <<>>
    ELSE IF Len(parts) = 1 THEN parts[1]
    ELSE parts[1] \o sep \o Join(Tail(parts), sep)

\* a < b for str: lexicographic by code point.
RECURSIVE StrLess(_, _)
StrLess(a, b) ==
    IF b = <<>> THEN FALSE
    ELSE IF a = <<>> THEN TRUE
    ELSE IF a[1] = b[1] THEN StrLess(Tail(a), Tail(b))
    ELSE Ord(a[1]) < Ord(b[1])

\* sorted(xs) for a list of str (a stable insertion sort gives the same list).
RECURSIVE Insert(_, _)
Insert(x, xs) ==
    IF xs = <<>> THEN <<x>>
    ELSE IF StrLess(x, xs[1]) THEN <<x>> \o xs
    ELSE <<xs[1]>> \o Insert(x, Tail(xs))

RECURSIVE Sorted(_)
Sorted(xs) ==
    IF xs = <<>> THEN <<>>
    ELSE Insert(xs[Len(xs)], Sorted(SubSeq(xs, 1, Len(xs) - 1)))

\* str(n) for an int n >= 0.
RECURSIVE IntToStr(_)
IntToStr(n) ==
    IF n < 10 THEN <<Digits[n + 1]>>
    ELSE IntToStr(n \div 10) \o <<Digits[(n % 10) + 1]>>

\* repr(s) for a str: the quote is " when s holds ' and no ", else '; the
\* quote in use and the backslash are escaped, newline and tab are spelled out.
ReprQuote(s) ==
    IF "'" \in Range(s) /\ "\"" \notin Range(s) THEN "\"" ELSE "'"

ReprChar(c, q) ==
    IF c = "\\" THEN <<"\\", "\\">>
    ELSE IF c = q THEN <<"\\", c>>
    ELSE IF c = "\n" THEN <<"\\", "n">>
    ELSE IF c = "\t" THEN <<"\\", "t">>
    ELSE IF c = "\r" THEN <<"\\", "r">>
    ELSE IF c = "\f" THEN <<"\\", "x", "0", "c">>
    ELSE <<c>>

RECURSIVE ReprBody(_, _)
ReprBody(s, q) ==
    IF s = <<>> THEN <<>> ELSE ReprChar(s[1], q) \o ReprBody(Tail(s), q)

Repr(s) == <<ReprQuote(s)>> \o ReprBody(s, ReprQuote(s)) \o <<ReprQuote(s)>>

(***************************************************************************)
(* voice_agent/command_parser.py                                           *)
(***************************************************************************)

\* The dataclass ParsedCommand (frozen): a value, never altered in place.
ParsedCommand(raw, command, is_valid, rejection_reason) ==
    [raw |-> raw, command |-> command, is_valid |-> is_valid,
     rejection_reason |-> rejection_reason]

FENCE == <<BQ, BQ, BQ>>

\* The end of the longest run of \w characters of text that starts at i
\* (the index after the run).
WordRunEnd(text, i) ==
    LET stop == {j \in i..Len(text) : ~IsWord(text[j])}
    IN  IF stop = {} THEN Len(text) + 1 ELSE Min(stop)

\* Mutant: group 1 is greedy, (.*) for (.*?): it runs to the last fence.
FenceMatchAtGreedy(text, i) ==
    IF ~StartsAt(text, FENCE, i) THEN <<0, 0>>
    ELSE LET w == WordRunEnd(text, i + Len(FENCE))
             n == IF w <= Len(text) /\ text[w] = "\n" THEN w + 1 ELSE w
             hits == {j \in n..(Len(text) - Len(FENCE) + 1) : StartsAt(text, FENCE, j)}
         IN  <<n, IF hits = {} THEN 0 ELSE Max(hits)>>

\* The pattern ```(?:\w*\n?)?(.*?)``` tried at index i of text: the opening
\* fence, the greedy optional group (the longest run of \w, then a newline if
\* one follows), then the lazy group 1 up to the next fence.  The characters
\* the greedy group takes are no backticks, so giving some of them back never
\* uncovers a closing fence: the greedy choice is the one re reports.
\* The result is <<start of group 1, index of the closing fence>>, the
\* closing index 0 when the pattern does not match at i.
FenceMatchAt(text, i) ==
    IF ~StartsAt(text, FENCE, i) THEN <<0, 0>>
    ELSE LET w == WordRunEnd(text, i + Len(FENCE))
             n == IF w <= Len(text) /\ text[w] = "\n" THEN w + 1 ELSE w
         IN  <<n, Find(text, FENCE, n)>>

\* _strip_fences: re.search takes the leftmost index at which the pattern
\* matches; the result is group 1 stripped, or text itself when none matches.
_strip_fences(text) ==
    LET starts == {i \in 1..Len(text) : FenceMatchAt(text, i)[2] # 0}
    IN  IF starts = {} THEN text
        ELSE LET m == FenceMatchAt(text, Min(starts))
             IN  Strip(SubSeq(text, m[1], m[2] - 1))

\* _REFUSAL_PATTERNS: each regular expression is a concatenation of groups
\* of literal alternatives, written in lower case (every pattern carries the
\* (?i) flag).
_REFUSAL_PATTERNS == <<
    << {<<"i">>},
       {<<"'", "m">>, <<" ", "a", "m">>},
       {<<" ">>},
       {<<"s", "o", "r", "r", "y">>, <<"u", "n", "a", "b", "l", "e">>, <<"n", "o", "t", " ", "a", "b", "l", "e">>} >>,
    << {<<"d", "o", "e", "s", "n", "'", "t">>, <<"d", "o", "e", "s", " ", "n", "o", "t">>, <<"d", "o", "n", "'", "t">>, <<"d", "o", " ", "n", "o", "t">>},
       {<<" ", "m", "a", "t", "c", "h">>} >>,
    << {<<"n", "o", " ">>},
       {<<"m", "a", "t", "c", "h", "i", "n", "g">>, <<"a", "v", "a", "i", "l", "a", "b", "l", "e">>, <<"v", "a", "l", "i", "d">>},
       {<<" ", "c", "o", "m", "m", "a", "n", "d">>} >>,
    << {<<"c", "a", "n", "n", "o", "t", " ">>},
       {<<"f", "i", "n", "d">>, <<"i", "d", "e", "n", "t", "i", "f", "y">>, <<"d", "e", "t", "e", "r", "m", "i", "n", "e">>} >>,
    << {<<"i", " ", "c", "a", "n">>},
       {<<"'", "t">>, <<"n", "o", "t">>} >>
>>

\* The literal strings a pattern matches (up to case).
RECURSIVE Alternatives(_)
Alternatives(pattern) ==
    IF pattern = <<>> THEN {<<>>}
    ELSE {a \o rest : a \in pattern[1], rest \in Alternatives(Tail(pattern))}

\* Mutant: the search without the (?i) flag.
RefusalSearchCaseSensitive(pattern, text) ==
    \E lit \in Alternatives(pattern) : Contains(text, lit)

\* re.search(pattern, text) for a pattern of _REFUSAL_PATTERNS.
RefusalSearch(pattern, text) ==
    \E lit \in Alternatives(pattern) : Contains(LowerStr(text), lit)

MSG_EMPTY == <<"E", "m", "p", "t", "y", " ", "c", "o", "m", "m", "a", "n", "d", " ", "o", "u", "t", "p", "u", "t", ".">>

\* Mutant: parse_llm_output without the .strip() after _strip_fences.
ParseWithoutStrip(raw) ==
    LET cleaned == _strip_fences(raw)
    IN  IF cleaned = <<>>
        THEN ParsedCommand(raw, <<>>, FALSE, MSG_EMPTY)
        ELSE IF \E k \in DOMAIN _REFUSAL_PATTERNS :
                    RefusalSearch(_REFUSAL_PATTERNS[k], cleaned)
        THEN ParsedCommand(raw, <<>>, FALSE, cleaned)
        ELSE ParsedCommand(raw, cleaned, TRUE, <<>>)

\* Mutant: parse_llm_output keeps the cleaned text as raw.
ParseKeepsCleanedAsRaw(raw) ==
    LET cleaned == Strip(_strip_fences(raw))
    IN  IF cleaned = <<>>
        THEN ParsedCommand(cleaned, <<>>, FALSE, MSG_EMPTY)
        ELSE IF \E k \in DOMAIN _REFUSAL_PATTERNS :
                    RefusalSearch(_REFUSAL_PATTERNS[k], cleaned)
        THEN ParsedCommand(cleaned, <<>>, FALSE, cleaned)
        ELSE ParsedCommand(cleaned, cleaned, TRUE, <<>>)

\* Mutant: parse_llm_output without the check for empty cleaned text.
ParseWithoutEmptyCheck(raw) ==
    LET cleaned == Strip(_strip_fences(raw))
    IN  IF \E k \in DOMAIN _REFUSAL_PATTERNS :
                RefusalSearch(_REFUSAL_PATTERNS[k], cleaned)
        THEN ParsedCommand(raw, <<>>, FALSE, cleaned)
        ELSE ParsedCommand(raw, cleaned, TRUE, <<>>)

\* Mutant: the refusal patterns are searched in the raw text.
ParseSearchesRaw(raw) ==
    LET cleaned == Strip(_strip_fences(raw))
    IN  IF cleaned = <<>>
        THEN ParsedCommand(raw, <<>>, FALSE, MSG_EMPTY)
        ELSE IF \E k \in DOMAIN _REFUSAL_PATTERNS :
                    RefusalSearch(_REFUSAL_PATTERNS[k], raw)
        THEN ParsedCommand(raw, <<>>, FALSE, cleaned)
        ELSE ParsedCommand(raw, cleaned, TRUE, <<>>)

\* parse_llm_output
parse_llm_output(raw) ==
    LET cleaned == Strip(_strip_fences(raw))
    IN  IF cleaned = <<>>
        THEN ParsedCommand(raw, <<>>, FALSE, MSG_EMPTY)
        ELSE IF \E k \in DOMAIN _REFUSAL_PATTERNS :
                    RefusalSearch(_REFUSAL_PATTERNS[k], cleaned)
        THEN ParsedCommand(raw, <<>>, FALSE, cleaned)
        ELSE ParsedCommand(raw, cleaned, TRUE, <<>>)

AND_AND == <<"&", "&">>

\* Mutant: the pieces are trimmed but the empty ones are kept.
ChainSegmentsKeepEmpty(text) ==
    LET pieces == Split(text, AND_AND)
    IN  [i \in 1..Len(pieces) |-> Strip(pieces[i])]

\* [s.strip() for s in text.split("&&") if s.strip()]
\* (command_parser.py line 98 and execute.py line 137 are the same expression)
ChainSegments(text) ==
    LET pieces == Split(text, AND_AND)
        stripped == [i \in 1..Len(pieces) |-> Strip(pieces[i])]
    IN  SelectSeq(stripped, LAMBDA x : x # <<>>)

\* segment.split()[0] if segment.split() else ""
FirstToken(segment) ==
    IF SplitWS(segment) # <<>> THEN SplitWS(segment)[1] ELSE <<>>

MSG_UNKNOWN == <<"U", "n", "k", "n", "o", "w", "n", " ", "c", "o", "m", "m", "a", "n", "d", ":", " ">>

MSG_AVAILABLE == <<".", " ", "A", "v", "a", "i", "l", "a", "b", "l", "e", ":", " ">>

COMMA_SPACE == <<",", " ">>

\* The ParsedCommand validate_against_catalog builds for an unknown token.
UnknownCommand(parsed, known_commands, first_token) ==
    ParsedCommand(parsed.raw, parsed.command, FALSE,
                  MSG_UNKNOWN \o Repr(first_token) \o MSG_AVAILABLE
                      \o Join(Sorted(known_commands), COMMA_SPACE))

\* Mutant: the loop runs to the end and reports the last unknown token.
ValidateFromLast(parsed, known_commands, segments, k) ==
    LET bad == {j \in k..Len(segments) :
                    FirstToken(segments[j]) \notin Range(known_commands)}
    IN  IF bad = {} THEN parsed
        ELSE UnknownCommand(parsed, known_commands, FirstToken(segments[Max(bad)]))

\* The for loop of validate_against_catalog from segment k on: the first
\* segment whose first token is not in known_commands ends it.
RECURSIVE ValidateFrom(_, _, _, _)
ValidateFrom(parsed, known_commands, segments, k) ==
    IF k > Len(segments) THEN parsed
    ELSE IF FirstToken(segments[k]) \notin Range(known_commands)
    THEN UnknownCommand(parsed, known_commands, FirstToken(segments[k]))
    ELSE ValidateFrom(parsed, known_commands, segments, k + 1)

\* Mutant: validate_against_catalog without the empty-catalog return.
ValidateWithoutSkip(parsed, known_commands) ==
    IF ~parsed.is_valid THEN parsed
    ELSE ValidateFrom(parsed, known_commands, ChainSegments(parsed.command), 1)

\* Mutant: the validator judges by the catalog alone, whatever is_valid was.
ValidateIgnoresIsValid(parsed, known_commands) ==
    IF known_commands = <<>> THEN parsed
    ELSE ValidateFrom([parsed EXCEPT !.is_valid = TRUE, !.rejection_reason = <<>>],
                      known_commands, ChainSegments(parsed.command), 1)

\* validate_against_catalog; known_commands is a list of str.
validate_against_catalog(parsed, known_commands) ==
    IF ~parsed.is_valid THEN parsed
    ELSE IF known_commands = <<>> THEN parsed
    ELSE ValidateFrom(parsed, known_commands, ChainSegments(parsed.command), 1)

MSG_CANNOT_EXECUTE == <<"C", "a", "n", "n", "o", "t", " ", "e", "x", "e", "c", "u", "t", "e", " ", "i", "n", "v", "a", "l", "i", "d", " ", "c", "o", "m", "m", "a", "n", "d", ":", " ">>

(***************************************************************************)
(* voice_agent/execute.py                                                  *)
(***************************************************************************)

\* The dataclass ExecutionResult (frozen).
ExecutionResult(success, stdout, stderr, return_code, command) ==
    [success |-> success, stdout |-> stdout, stderr |-> stderr,
     return_code |-> return_code, command |-> command]

\* Mutant: the pattern without the pipe character.
DangerousPatternNoPipe(command) ==
    \E i \in 1..Len(command) :
        \/ command[i] \in {";", BQ}
        \/ StartsAt(command, <<"$", "(">>, i)

\* _DANGEROUS_PATTERN.search(command): re.compile(r"[;|`]|\$\(")
_DANGEROUS_PATTERN(command) ==
    \E i \in 1..Len(command) :
        \/ command[i] \in {";", "|", BQ}
        \/ StartsAt(command, <<"$", "(">>, i)

MSG_REJECTED == <<"C", "o", "m", "m", "a", "n", "d", " ", "r", "e", "j", "e", "c", "t", "e", "d", ":", " ", "c", "o", "n", "t", "a", "i", "n", "s", " ", "d", "i", "s", "a", "l", "l", "o", "w", "e", "d", " ", "s", "h", "e", "l", "l", " ", "m", "e", "t", "a", "c", "h", "a", "r", "a", "c", "t", "e", "r", "s", " ", "(", ";", ",", " ", "|", ",", " ", BQ, ",", " ", "$", "(", ")", ".">>

MSG_PARSE_FAILED == <<"F", "a", "i", "l", "e", "d", " ", "t", "o", " ", "p", "a", "r", "s", "e", " ", "c", "o", "m", "m", "a", "n", "d", ":", " ">>

MSG_NO_CLOSING == <<"N", "o", " ", "c", "l", "o", "s", "i", "n", "g", " ", "q", "u", "o", "t", "a", "t", "i", "o", "n">>

MSG_NO_ESCAPED == <<"N", "o", " ", "e", "s", "c", "a", "p", "e", "d", " ", "c", "h", "a", "r", "a", "c", "t", "e", "r">>

MSG_TIMED_OUT == <<"C", "o", "m", "m", "a", "n", "d", " ", "t", "i", "m", "e", "d", " ", "o", "u", "t", " ", "a", "f", "t", "e", "r", " ">>

MSG_SECONDS == <<" ", "s", "e", "c", "o", "n", "d", "s", ".">>

MSG_NOT_FOUND == <<"C", "o", "m", "m", "a", "n", "d", " ", "n", "o", "t", " ", "f", "o", "u", "n", "d", ":", " ">>

Quotes == {"'", "\""}

\* shlex.whitespace, the characters that separate tokens in shlex.split.
ShlexWhitespace == {" ", "\t", "\r", "\n"}

\* shlex.split(command, posix=True): shlex.read_token run over s from index
\* i.  st is shlex's state (" " between tokens, "a" in a word, a quote, or
\* the escape character), esc its escapedstate, tok the token being built,
\* quoted whether the token met a quote, out the tokens emitted so far.  The
\* result is [ok, argv, err]: err is the message of the ValueError raised.
RECURSIVE ShlexRun(_, _, _, _, _, _, _)
ShlexRun(s, i, st, esc, tok, quoted, out) ==
    IF i > Len(s)
    THEN CASE st \in Quotes -> [ok |-> FALSE, argv |-> <<>>, err |-> MSG_NO_CLOSING]
           [] st = "\\" -> [ok |-> FALSE, argv |-> <<>>, err |-> MSG_NO_ESCAPED]
           [] st = "a" -> [ok |-> TRUE, err |-> <<>>,
                           argv |-> IF tok # <<>> \/ quoted THEN Append(out, tok) ELSE out]
           [] OTHER -> [ok |-> TRUE, argv |-> out, err |-> <<>>]
    ELSE LET c == s[i] IN
         CASE st = " " ->
                IF c \in ShlexWhitespace THEN ShlexRun(s, i + 1, " ", esc, tok, quoted, out)
                ELSE IF c = "\\" THEN ShlexRun(s, i + 1, c, "a", tok, quoted, out)
                ELSE IF c \in Quotes THEN ShlexRun(s, i + 1, c, esc, tok, quoted, out)
                ELSE ShlexRun(s, i + 1, "a", esc, <<c>>, quoted, out)
           [] st \in Quotes ->
                IF c = st THEN ShlexRun(s, i + 1, "a", esc, tok, TRUE, out)
                ELSE IF c = "\\" /\ st = "\"" THEN ShlexRun(s, i + 1, c, st, tok, TRUE, out)
                ELSE ShlexRun(s, i + 1, st, esc, Append(tok, c), TRUE, out)
           [] st = "\\" ->
                ShlexRun(s, i + 1, esc, esc,
                         (IF esc \in Quotes /\ c # "\\" /\ c # esc
                          THEN Append(tok, "\\") ELSE tok) \o <<c>>,
                         quoted, out)
           [] OTHER ->
                IF c \in ShlexWhitespace
                THEN ShlexRun(s, i + 1, " ", " ", <<>>, FALSE,
                              IF tok # <<>> \/ quoted THEN Append(out, tok) ELSE out)
                ELSE IF c \in Quotes THEN ShlexRun(s, i + 1, c, esc, tok, quoted, out)
                ELSE IF c = "\\" THEN ShlexRun(s, i + 1, c, "a", tok, quoted, out)
                ELSE ShlexRun(s, i + 1, "a", esc, Append(tok, c), quoted, out)

ShlexSplit(s) == ShlexRun(s, 1, " ", " ", <<>>, FALSE, <<>>)

\* The results execute_command builds, by the return statement that builds them.
RejectedResult(command) ==
    ExecutionResult(FALSE, <<>>, MSG_REJECTED, -1, command)

ParseFailedResult(command, exc) ==
    ExecutionResult(FALSE, <<>>, MSG_PARSE_FAILED \o exc, -1, command)

\* Mutant: a completed process is a success whatever its exit code.
CompletedResultAlwaysSuccess(command, returncode, stdout, stderr) ==
    ExecutionResult(TRUE, stdout, stderr, returncode, command)

CompletedResult(command, returncode, stdout, stderr) ==
    ExecutionResult(returncode = 0, stdout, stderr, returncode, command)

TimedOutResult(command, timeout) ==
    ExecutionResult(FALSE, <<>>, MSG_TIMED_OUT \o IntToStr(timeout) \o MSG_SECONDS,
                    -1, command)

NotFoundResult(command, argv) ==
    ExecutionResult(FALSE, <<>>, MSG_NOT_FOUND \o Repr(argv[1]), 127, command)

(***************************************************************************)
(* history.py                                                              *)
(***************************************************************************)

\* {"role": role, "content": content}
Message(role, content) == [role |-> role, content |-> content]

\* ConversationHistory(max_turns): no message yet.
ConversationHistory(max_turns) == [messages |-> <<>>, max_turns |-> max_turns]

\* xs[start:] for a Python list: a negative start counts from the end, and
\* a start outside the list is clamped.
SliceFrom(xs, start) ==
    LET from == IF start < 0 THEN Max({Len(xs) + start, 0}) ELSE Min({start, Len(xs)})
    IN  SubSeq(xs, from + 1, Len(xs))

\* Mutant: the oldest messages are kept, non_system[:max_non_system].
EnforceLimitKeepsOldest(h) ==
    IF h.max_turns = 0 THEN h
    ELSE LET system_msgs == SelectSeq(h.messages, LAMBDA m : m.role = "system")
             non_system == SelectSeq(h.messages, LAMBDA m : m.role # "system")
             max_non_system == h.max_turns * 2
         IN  [h EXCEPT !.messages =
                 system_msgs \o (IF Len(non_system) > max_non_system
                                 THEN SubSeq(non_system, 1, max_non_system)
                                 ELSE non_system)]

\* Mutant: the cap is applied to the whole list, system messages included.
EnforceLimitTrimsAll(h) ==
    IF h.max_turns = 0 THEN h
    ELSE LET max_non_system == h.max_turns * 2
         IN  [h EXCEPT !.messages =
                 IF Len(h.messages) > max_non_system
                 THEN SliceFrom(h.messages, -max_non_system)
                 ELSE h.messages]

\* ConversationHistory._enforce_limit
_enforce_limit(h) ==
    IF h.max_turns = 0 THEN h
    ELSE LET system_msgs == SelectSeq(h.messages, LAMBDA m : m.role = "system")
             non_system == SelectSeq(h.messages, LAMBDA m : m.role # "system")
             max_non_system == h.max_turns * 2
         IN  [h EXCEPT !.messages =
                 system_msgs \o (IF Len(non_system) > max_non_system
                                 THEN SliceFrom(non_system, -max_non_system)
                                 ELSE non_system)]

\* ConversationHistory.add
HistoryAdd(h, role, content) ==
    _enforce_limit([h EXCEPT !.messages = Append(h.messages, Message(role, content))])

\* ConversationHistory.clear
HistoryClear(h) == [h EXCEPT !.messages = <<>>]

(***************************************************************************)
(* modes.py                                                                *)
(***************************************************************************)

\* build_system_prompt(): the rendered prompt of the mode's own template.
build_system_prompt(mode) == <<"prompt", mode>>

\* ModeHandler.__init__: a ConversationHistory of its own, with the system
\* prompt of the mode as its first message.  llm_messages is the list last
\* passed to llm.chat, log is every message this handler added, turns and
\* failed count the calls of handle_turn that returned and that raised.
ModeHandler(mode, max_turns) ==
    [history |-> HistoryAdd(ConversationHistory(max_turns), "system",
                            build_system_prompt(mode)),
     log |-> <<Message("system", build_system_prompt(mode))>>,
     at |-> "ready",
     user_input |-> <<>>,
     llm_messages |-> <<>>,
     response |-> <<>>,
     turns |-> 0,
     failed |-> 0]

(***************************************************************************)
(* Inputs                                                                  *)
(***************************************************************************)

\* The longest raw LLM text, in pieces.
MaxPieces == 4

\* The longest chain passed to execute_chain directly, in segments.
MaxSegments == 3

\* The largest timeout, in seconds.
MaxTimeout == 2

RECURSIVE Flatten(_)
Flatten(parts) == IF parts = <<>> THEN <<>> ELSE parts[1] \o Flatten(Tail(parts))

\* What raw LLM text is put together from: a fence, a language-tag line,
\* white space, a command name, an argument that starts with a non-word
\* character, the chain operator, a refusal.
Pieces ==
    { FENCE, <<"b", "a", "s", "h", "\n">>, <<"\n">>, <<" ">>, <<"l", "s">>, <<"-", "x">>, AND_AND,
      <<"I", " ", "C", "A", "N", "'", "T">> }

RawInputs ==
    {Flatten(f) : f \in UNION {[1..n -> Pieces] : n \in 0..MaxPieces}}

\* The catalogs (known_commands): none loaded, one name, two names out of order.
Catalogs ==
    { <<>>, <<<<"l", "s">>>>, <<<<"l", "s">>, <<"b", "a", "s", "h">>>> }

\* ParsedCommand values a caller builds itself (tests/test_command_parser.py).
BuiltParsedCommands ==
    { ParsedCommand(<<"b", "a", "d">>, <<>>, FALSE, <<"I", "n", "v", "a", "l", "i", "d", ".">>),
      ParsedCommand(<<"l", "s", " ", "-", "x">>, <<"l", "s", " ", "-", "x">>, FALSE, <<"I", "n", "v", "a", "l", "i", "d", ".">>),
      ParsedCommand(<<"l", "s", " ", "-", "x">>, <<"l", "s", " ", "-", "x">>, TRUE, <<>>),
      ParsedCommand(<<>>, <<>>, TRUE, <<>>) }

\* Raw LLM outputs fed through the whole pipeline.
LLM_OUTPUTS ==
    { <<"l", "s", " ", "/", "t", "m", "p">>,
      <<BQ, BQ, BQ, "b", "a", "s", "h", "\n", "l", "s", " ", "/", "t", "m", "p", " ", "&", "&", " ", "r", "m", " ", "x", "\n", BQ, BQ, BQ>>,
      <<"I", "'", "m", " ", "s", "o", "r", "r", "y", ",", " ", "n", "o", " ", "m", "a", "t", "c", "h", "i", "n", "g", " ", "c", "o", "m", "m", "a", "n", "d", ".">>,
      <<"l", "s", ";", " ", "r", "m", " ", "x">>,
      <<"l", "s", " ", "'", "x">>,
      <<"\"", "\"", " ", "&", "&", " ", "l", "s">>,
      <<"l", "s", "\f", "-", "x">>,
      <<>> }

\* The segments direct calls of execute_chain are put together from: two
\* commands, one with a metacharacter, one with an unbalanced quote, one that
\* is an empty program name in quotes, and a blank segment.
SegmentPool ==
    { <<"l", "s", "-", "d", "i", "r">>, <<"r", "m", " ", "x">>, <<"a", ";", "b">>, <<"'", "x">>, <<"\"", "\"">>, <<" ">> }

ChainInputs ==
    {Join(f, <<" ">> \o AND_AND \o <<" ">>) :
        f \in UNION {[1..n -> SegmentPool] : n \in 0..MaxSegments}}

\* The command strings of direct calls of execute_command.
CommandInputs ==
    SegmentPool
    \cup { <<>>, <<"l", "s", " ", "&", "&", " ", "r", "m">>,
           <<"l", "s", " ", "'", "a", "|", "b", "'">>,
           <<"l", "s", " ", "$", "(", "x", ")">>,
           <<"l", "s", " ", BQ, "x", BQ>>,
           <<"l", "s", " ", "$", "x">>,
           <<"l", "s", " ", "'", "a", ";", "b">> }

Timeouts == 1..MaxTimeout

\* cwd: None, or a path; the code never looks into the path.
Cwds == {"None", "/work"}

\* What a child process that runs to completion reports: its exit code (a
\* negative code is the signal that ended it), its stdout and its stderr.
ProcessOutcomes ==
    { [returncode |-> 0, stdout |-> <<"o", "k", "\n">>, stderr |-> <<>>],
      [returncode |-> 1, stdout |-> <<>>, stderr |-> <<"e", "r", "r", "\n">>],
      [returncode |-> 127, stdout |-> <<>>, stderr |-> <<"e", "r", "r", "\n">>],
      [returncode |-> -1, stdout |-> <<>>, stderr |-> <<>>] }

\* The most calls of add on one history.
MaxAdds == 6

\* The largest max_turns.
MaxTurns == 2

\* max_turns: a negative number, 0 (no cap), and caps of 1 turn and more.
MaxTurnsValues == (-1)..MaxTurns

\* The roles of the messages: the three the program uses.
Roles == {"system", "user", "assistant"}

\* The content of the n-th message added: "m" and the number.
Content(n) == <<"m">> \o IntToStr(n)

\* The most calls of handle_turn on one handler.
MaxCalls == 3

\* conversation.max_turns of a handler's config: 0 (no cap) or a number of
\* turns to keep.
HandlerMaxTurns == 0..MaxTurns

\* What the user says in the n-th call of handle_turn of a mode, and what
\* the LLM answers.
UserInput(mode, n) == <<"user input", mode>> \o IntToStr(n)

LlmResponse(mode, n) == <<"response", mode>> \o IntToStr(n)

\* _MODES: the registered modes, each with its own handler class.
Modes == {"chat", "agent"}

(***************************************************************************)
(* State                                                                   *)
(***************************************************************************)

VARIABLES
    pc,         \* where the caller's turn is
    entry,      \* the function of the core the caller called to execute
    parsed,     \* the ParsedCommand of parse_llm_output (or built by the caller)
    origin,     \* where parsed comes from: parse_llm_output, or the caller
    known,      \* the known_commands passed to validate_against_catalog
    validated,  \* the ParsedCommand validate_against_catalog returned
    arg,        \* the ParsedCommand passed to execute_parsed_command
    args,       \* the timeout and cwd the caller passed to the entry function
    chain_string, \* the command_string passed to execute_chain (empty before)
    timeout,    \* timeout of the call
    cwd,        \* cwd of the call
    commands,   \* execute_chain's list commands
    idx,        \* the position of execute_chain's for loop in commands
    argv,       \* execute_command's argv
    results,    \* execute_chain's list results
    procs,      \* the child processes spawned so far, in order
    elapsed,    \* seconds the running child has run
    clock,      \* seconds since the caller's turn began
    oserror,    \* why subprocess.run could not start the last child
    raised,     \* the exception that left the core, if any
    llm_output, \* the raw text passed to parse_llm_output
    reparsed,   \* parse_llm_output of the command of parsed
    revalidated, \* validate_against_catalog of validated, same catalog
    history,    \* a ConversationHistory: its _messages and max_turns
    added,      \* every message passed to history.add, in order
    handler     \* the ModeHandler of each mode, once constructed

vars == <<pc, entry, parsed, origin, known, validated, arg, args, chain_string, timeout, cwd, commands, idx,
          argv, results, procs, elapsed, clock, oserror, raised, llm_output, reparsed,
          revalidated, history, added, handler>>

\* No value (yet).
NONE == [none |-> TRUE]

Init ==
    /\ pc = "idle"
    /\ entry = "none"
    /\ parsed = NONE
    /\ origin = "none"
    /\ known = <<>>
    /\ validated = NONE
    /\ arg = NONE
    /\ args = NONE
    /\ chain_string = <<>>
    /\ timeout = 0
    /\ cwd = "None"
    /\ commands = <<>>
    /\ idx = 0
    /\ argv = <<>>
    /\ results = <<>>
    /\ procs = <<>>
    /\ elapsed = 0
    /\ clock = 0
    /\ oserror = "none"
    /\ raised = NONE
    /\ llm_output = NONE
    /\ reparsed = NONE
    /\ revalidated = NONE
    /\ history = NONE
    /\ added = <<>>
    /\ handler = [m \in Modes |-> NONE]

execVars == <<entry, arg, args, chain_string, timeout, cwd, commands, idx, argv, results, procs,
              elapsed, clock, oserror, raised>>

\* The conversation side: a ConversationHistory and the mode handlers.
sessionVars == <<history, added, handler>>

(***************************************************************************)
(* The parser and the validator                                            *)
(***************************************************************************)

\* parsed = parse_llm_output(raw)
ParseLlmOutput(raw) ==
    /\ pc = "idle"
    /\ llm_output' = raw
    /\ parsed' = parse_llm_output(raw)
    /\ origin' = "parse_llm_output"
    /\ pc' = "parsed"
    /\ UNCHANGED <<known, validated, reparsed, revalidated>>
    /\ UNCHANGED execVars
    /\ UNCHANGED sessionVars

\* parsed = ParsedCommand(...), built by the caller
NewParsedCommand(p) ==
    /\ pc = "idle"
    /\ parsed' = p
    /\ origin' = "caller"
    /\ pc' = "parsed"
    /\ UNCHANGED <<known, validated, llm_output, reparsed, revalidated>>
    /\ UNCHANGED execVars
    /\ UNCHANGED sessionVars

\* validated = validate_against_catalog(parsed, known_commands)
ValidateAgainstCatalog(known_commands) ==
    /\ pc = "parsed"
    /\ validated' = validate_against_catalog(parsed, known_commands)
    /\ known' = known_commands
    /\ pc' = "validated"
    /\ UNCHANGED <<parsed, origin, llm_output, reparsed, revalidated>>
    /\ UNCHANGED execVars
    /\ UNCHANGED sessionVars

\* reparsed = parse_llm_output(parsed.command): the caller parses the
\* cleaned command of a valid parser result once more.
ParseCommandAgain ==
    /\ pc = "parsed"
    /\ origin = "parse_llm_output"
    /\ parsed.is_valid
    /\ reparsed' = parse_llm_output(parsed.command)
    /\ pc' = "reparsed"
    /\ UNCHANGED <<parsed, origin, known, validated, llm_output, revalidated>>
    /\ UNCHANGED execVars
    /\ UNCHANGED sessionVars

\* revalidated = validate_against_catalog(validated, known_commands): the
\* caller passes the validator's answer to the validator once more, with
\* the same catalog.
ValidateAgain ==
    /\ pc = "validated"
    /\ revalidated' = validate_against_catalog(validated, known)
    /\ pc' = "revalidated"
    /\ UNCHANGED <<parsed, origin, known, validated, llm_output, reparsed>>
    /\ UNCHANGED execVars
    /\ UNCHANGED sessionVars

(***************************************************************************)
(* The executor                                                            *)
(***************************************************************************)

parseVars == <<parsed, origin, known, validated, llm_output, reparsed, revalidated>>

\* The body of execute_chain up to its for loop, for command_string.
StartChain(command_string, t, c) ==
    /\ chain_string' = command_string
    /\ commands' = ChainSegments(command_string)
    /\ idx' = 1
    /\ results' = <<>>
    /\ timeout' = t
    /\ cwd' = c
    /\ pc' = IF ChainSegments(command_string) = <<>> THEN "returned" ELSE "exec"

\* Mutant: execute_parsed_command without its is_valid guard.
ExecuteParsedCommandNoGuard(t, c) ==
    /\ pc \in {"parsed", "validated"}
    /\ LET p == IF pc = "validated" THEN validated ELSE parsed IN
       /\ arg' = p
       /\ args' = [timeout |-> t, cwd |-> c]
       /\ entry' = "execute_parsed_command"
       /\ StartChain(p.command, t, c)
       /\ UNCHANGED raised
    /\ UNCHANGED <<argv, procs, elapsed, clock, oserror>>
    /\ UNCHANGED parseVars
    /\ UNCHANGED sessionVars

\* Mutant: execute_parsed_command does not forward its timeout, so that
\* execute_chain runs with its default of 30 seconds.
ExecuteParsedCommandDefaultTimeout(t, c) ==
    /\ pc \in {"parsed", "validated"}
    /\ LET p == IF pc = "validated" THEN validated ELSE parsed IN
       /\ arg' = p
       /\ args' = [timeout |-> t, cwd |-> c]
       /\ entry' = "execute_parsed_command"
       /\ IF ~p.is_valid
          THEN /\ raised' = [type |-> "ValueError",
                             message |-> MSG_CANNOT_EXECUTE \o p.rejection_reason]
               /\ pc' = "raised"
               /\ UNCHANGED <<chain_string, commands, idx, results, timeout, cwd>>
          ELSE /\ StartChain(p.command, 30, c)
               /\ UNCHANGED raised
    /\ UNCHANGED <<argv, procs, elapsed, clock, oserror>>
    /\ UNCHANGED parseVars
    /\ UNCHANGED sessionVars

\* execute_parsed_command(parsed, timeout, cwd), on the parser's value or on
\* the validator's: the guard raises ValueError, else execute_chain is called.
ExecuteParsedCommand(t, c) ==
    /\ pc \in {"parsed", "validated"}
    /\ LET p == IF pc = "validated" THEN validated ELSE parsed IN
       /\ arg' = p
       /\ args' = [timeout |-> t, cwd |-> c]
       /\ entry' = "execute_parsed_command"
       /\ IF ~p.is_valid
          THEN /\ raised' = [type |-> "ValueError",
                             message |-> MSG_CANNOT_EXECUTE \o p.rejection_reason]
               /\ pc' = "raised"
               /\ UNCHANGED <<chain_string, commands, idx, results, timeout, cwd>>
          ELSE /\ StartChain(p.command, t, c)
               /\ UNCHANGED raised
    /\ UNCHANGED <<argv, procs, elapsed, clock, oserror>>
    /\ UNCHANGED parseVars
    /\ UNCHANGED sessionVars

\* execute_chain(command_string, timeout, cwd), called directly
ExecuteChain(command_string, t, c) ==
    /\ pc = "idle"
    /\ entry' = "execute_chain"
    /\ args' = [timeout |-> t, cwd |-> c]
    /\ StartChain(command_string, t, c)
    /\ UNCHANGED <<arg, argv, procs, elapsed, clock, oserror, raised>>
    /\ UNCHANGED parseVars
    /\ UNCHANGED sessionVars

\* execute_command(command, timeout, cwd), called directly
ExecuteCommand(command, t, c) ==
    /\ pc = "idle"
    /\ entry' = "execute_command"
    /\ args' = [timeout |-> t, cwd |-> c]
    /\ chain_string' = <<>>
    /\ commands' = <<command>>
    /\ idx' = 1
    /\ results' = <<>>
    /\ timeout' = t
    /\ cwd' = c
    /\ pc' = "exec"
    /\ UNCHANGED <<arg, argv, procs, elapsed, clock, oserror, raised>>
    /\ UNCHANGED parseVars
    /\ UNCHANGED sessionVars

\* Mutant: execute_chain without the break on a failed result.
ReturnNoBreak(r) ==
    /\ results' = Append(results, r)
    /\ IF entry # "execute_command" /\ idx < Len(commands)
       THEN pc' = "exec" /\ idx' = idx + 1
       ELSE pc' = "returned" /\ idx' = idx
    /\ UNCHANGED raised

\* execute_command returns result r: a direct caller has it; execute_chain
\* appends it, breaks on a failure, and returns after the last command.
Return(r) ==
    /\ results' = Append(results, r)
    /\ IF entry # "execute_command" /\ r.success /\ idx < Len(commands)
       THEN pc' = "exec" /\ idx' = idx + 1
       ELSE pc' = "returned" /\ idx' = idx
    /\ UNCHANGED raised

\* An exception no except clause of execute_command catches leaves
\* execute_command, execute_chain and execute_parsed_command.
Raise(type) ==
    /\ raised' = [type |-> type, message |-> <<>>]
    /\ pc' = "raised"
    /\ UNCHANGED <<results, idx>>

\* Mutant: shlex.split runs before the metacharacter check.
BeginExecuteCommandSplitFirst ==
    /\ pc = "exec"
    /\ LET command == commands[idx] IN
       IF ~ShlexSplit(command).ok
       THEN Return(ParseFailedResult(command, ShlexSplit(command).err)) /\ UNCHANGED argv
       ELSE IF _DANGEROUS_PATTERN(command)
       THEN Return(RejectedResult(command)) /\ UNCHANGED argv
       ELSE /\ argv' = ShlexSplit(command).argv
            /\ pc' = "spawn"
            /\ UNCHANGED <<results, idx, raised>>
    /\ UNCHANGED <<entry, arg, args, chain_string, timeout, cwd, commands, procs, elapsed, clock, oserror>>
    /\ UNCHANGED parseVars
    /\ UNCHANGED sessionVars

\* execute_command(commands[idx]) up to its call of subprocess.run: the
\* metacharacter check, then shlex.split.
BeginExecuteCommand ==
    /\ pc = "exec"
    /\ LET command == commands[idx] IN
       IF _DANGEROUS_PATTERN(command)
       THEN Return(RejectedResult(command)) /\ UNCHANGED argv
       ELSE IF ~ShlexSplit(command).ok
       THEN Return(ParseFailedResult(command, ShlexSplit(command).err)) /\ UNCHANGED argv
       ELSE /\ argv' = ShlexSplit(command).argv
            /\ pc' = "spawn"
            /\ UNCHANGED <<results, idx, raised>>
    /\ UNCHANGED <<entry, arg, args, chain_string, timeout, cwd, commands, procs, elapsed, clock, oserror>>
    /\ UNCHANGED parseVars
    /\ UNCHANGED sessionVars

\* subprocess.run(argv, ...) with an empty argv: Popen reads args[0].
SpawnEmptyArgv ==
    /\ pc = "spawn"
    /\ argv = <<>>
    /\ Raise("IndexError")
    /\ oserror' = "none"
    /\ UNCHANGED <<entry, arg, args, chain_string, timeout, cwd, commands, argv, procs, elapsed, clock>>
    /\ UNCHANGED parseVars
    /\ UNCHANGED sessionVars

\* Why the operating system may refuse to start the child.  Each is an
\* OSError subclass; execute_command catches FileNotFoundError only.
SpawnErrors(c) ==
    {"executable missing", "executable not executable"}
    \cup (IF c = "None" THEN {} ELSE {"cwd missing", "cwd not a directory"})

OSErrorType(why) ==
    CASE why \in {"executable missing", "cwd missing"} -> "FileNotFoundError"
      [] why = "executable not executable" -> "PermissionError"
      [] why = "cwd not a directory" -> "NotADirectoryError"

\* Mutant: execute_command without its except FileNotFoundError clause.
SpawnFailsUncaught(why) ==
    /\ pc = "spawn"
    /\ argv # <<>>
    /\ why \in SpawnErrors(cwd)
    /\ oserror' = why
    /\ Raise(OSErrorType(why))
    /\ UNCHANGED <<entry, arg, args, chain_string, timeout, cwd, commands, argv, procs, elapsed, clock>>
    /\ UNCHANGED parseVars
    /\ UNCHANGED sessionVars

\* subprocess.run cannot start the child: Popen raises an OSError.
SpawnFails(why) ==
    /\ pc = "spawn"
    /\ argv # <<>>
    /\ why \in SpawnErrors(cwd)
    /\ oserror' = why
    /\ IF OSErrorType(why) = "FileNotFoundError"
       THEN Return(NotFoundResult(commands[idx], argv))
       ELSE Raise(OSErrorType(why))
    /\ UNCHANGED <<entry, arg, args, chain_string, timeout, cwd, commands, argv, procs, elapsed, clock>>
    /\ UNCHANGED parseVars
    /\ UNCHANGED sessionVars

\* The child subprocess.run(argv, timeout=timeout, cwd=cwd) starts now.
Child ==
    [argv |-> argv, cwd |-> cwd, timeout |-> timeout, segment |-> idx,
     status |-> "running", started |-> clock, ended |-> clock]

\* Mutant: one deadline for the whole chain, counted from the first spawn.
SpawnStartsSharedDeadline ==
    /\ pc = "spawn"
    /\ argv # <<>>
    /\ procs' = Append(procs, Child)
    /\ elapsed' = elapsed
    /\ oserror' = "none"
    /\ pc' = "running"
    /\ UNCHANGED <<entry, arg, args, chain_string, timeout, cwd, commands, idx, argv, results, clock,
                   raised>>
    /\ UNCHANGED parseVars
    /\ UNCHANGED sessionVars

\* subprocess.run starts the child and waits for it.
SpawnStarts ==
    /\ pc = "spawn"
    /\ argv # <<>>
    /\ procs' = Append(procs, Child)
    /\ elapsed' = 0
    /\ oserror' = "none"
    /\ pc' = "running"
    /\ UNCHANGED <<entry, arg, args, chain_string, timeout, cwd, commands, idx, argv, results, clock,
                   raised>>
    /\ UNCHANGED parseVars
    /\ UNCHANGED sessionVars

\* A second passes while the child runs.
Tick ==
    /\ pc = "running"
    /\ elapsed < timeout
    /\ elapsed' = elapsed + 1
    /\ clock' = clock + 1
    /\ UNCHANGED <<pc, entry, arg, args, chain_string, timeout, cwd, commands, idx, argv, results,
                   procs, oserror, raised>>
    /\ UNCHANGED parseVars
    /\ UNCHANGED sessionVars

SetLast(ps, status) ==
    [ps EXCEPT ![Len(ps)] = [@ EXCEPT !.status = status, !.ended = clock]]

\* The child ends before the timeout: subprocess.run returns.
ProcessExits(o) ==
    /\ pc = "running"
    /\ elapsed < timeout
    /\ procs' = SetLast(procs, "exited")
    /\ Return(CompletedResult(commands[idx], o.returncode, o.stdout, o.stderr))
    /\ UNCHANGED <<entry, arg, args, chain_string, timeout, cwd, commands, argv, elapsed, clock, oserror>>
    /\ UNCHANGED parseVars
    /\ UNCHANGED sessionVars

\* Mutant: on a timeout the child is left running.
TimeoutExpiredNoKill ==
    /\ pc = "running"
    /\ elapsed = timeout
    /\ procs' = procs
    /\ Return(TimedOutResult(commands[idx], timeout))
    /\ UNCHANGED <<entry, arg, args, chain_string, timeout, cwd, commands, argv, elapsed, clock, oserror>>
    /\ UNCHANGED parseVars
    /\ UNCHANGED sessionVars

\* The timeout expires: subprocess.run kills the child, waits for it and
\* raises TimeoutExpired, which execute_command catches.
TimeoutExpired ==
    /\ pc = "running"
    /\ elapsed = timeout
    /\ procs' = SetLast(procs, "killed")
    /\ Return(TimedOutResult(commands[idx], timeout))
    /\ UNCHANGED <<entry, arg, args, chain_string, timeout, cwd, commands, argv, elapsed, clock, oserror>>
    /\ UNCHANGED parseVars
    /\ UNCHANGED sessionVars

(***************************************************************************)
(* The conversation history                                                *)
(***************************************************************************)

historyFrame == <<pc, handler>>

\* history = ConversationHistory(max_turns=max_turns)
NewConversationHistory(max_turns) ==
    /\ history = NONE
    /\ history' = ConversationHistory(max_turns)
    /\ added' = <<>>
    /\ UNCHANGED historyFrame
    /\ UNCHANGED parseVars
    /\ UNCHANGED execVars

\* history.add(role, content)
Add(role) ==
    /\ history # NONE
    /\ Len(added) < MaxAdds
    /\ LET m == Message(role, Content(Len(added) + 1)) IN
       /\ history' = HistoryAdd(history, m.role, m.content)
       /\ added' = Append(added, m)
    /\ UNCHANGED historyFrame
    /\ UNCHANGED parseVars
    /\ UNCHANGED execVars

\* history.clear(): the history starts again.
Clear ==
    /\ history # NONE
    /\ added # <<>>
    /\ history' = HistoryClear(history)
    /\ added' = <<>>
    /\ UNCHANGED historyFrame
    /\ UNCHANGED parseVars
    /\ UNCHANGED execVars

(***************************************************************************)
(* The mode handlers                                                       *)
(***************************************************************************)

modesFrame == <<pc, history, added>>

\* No handler is inside handle_turn: the turns are synchronous.
NoTurnInProgress ==
    \A m \in Modes : IF handler[m] = NONE THEN TRUE ELSE handler[m].at = "ready"

\* handler = ChatMode(config, llm) or AgentMode(config, llm)
NewModeHandler(mode, max_turns) ==
    /\ handler[mode] = NONE
    /\ NoTurnInProgress
    /\ handler' = [handler EXCEPT ![mode] = ModeHandler(mode, max_turns)]
    /\ UNCHANGED modesFrame
    /\ UNCHANGED parseVars
    /\ UNCHANGED execVars

\* Mutant: handle_turn calls llm.chat before it adds the user message.
HandleTurnChatFirst(mode) ==
    /\ handler[mode] # NONE
    /\ NoTurnInProgress
    /\ handler[mode].turns + handler[mode].failed < MaxCalls
    /\ LET h == handler[mode]
           user_input == UserInput(mode, h.turns + h.failed + 1)
           after == HistoryAdd(h.history, "user", user_input)
       IN  handler' = [handler EXCEPT ![mode] =
                [h EXCEPT !.history = after,
                          !.log = Append(h.log, Message("user", user_input)),
                          !.user_input = user_input,
                          !.llm_messages = h.history.messages,
                          !.at = "llm.chat"]]
    /\ UNCHANGED modesFrame
    /\ UNCHANGED parseVars
    /\ UNCHANGED execVars

\* handler.handle_turn(user_input) up to its call of llm.chat: the user
\* message is added, then llm.chat gets history.get_messages_for_llm().
HandleTurn(mode) ==
    /\ handler[mode] # NONE
    /\ NoTurnInProgress
    /\ handler[mode].turns + handler[mode].failed < MaxCalls
    /\ LET h == handler[mode]
           user_input == UserInput(mode, h.turns + h.failed + 1)
           after == HistoryAdd(h.history, "user", user_input)
       IN  handler' = [handler EXCEPT ![mode] =
                [h EXCEPT !.history = after,
                          !.log = Append(h.log, Message("user", user_input)),
                          !.user_input = user_input,
                          !.llm_messages = after.messages,
                          !.at = "llm.chat"]]
    /\ UNCHANGED modesFrame
    /\ UNCHANGED parseVars
    /\ UNCHANGED execVars

\* llm.chat returns: the response is added as the assistant's message and
\* returned.
LlmReplies(mode) ==
    /\ handler[mode] # NONE
    /\ handler[mode].at = "llm.chat"
    /\ LET h == handler[mode]
           response == LlmResponse(mode, h.turns + h.failed + 1)
       IN  handler' = [handler EXCEPT ![mode] =
                [h EXCEPT !.history = HistoryAdd(h.history, "assistant", response),
                          !.log = Append(h.log, Message("assistant", response)),
                          !.response = response,
                          !.turns = h.turns + 1,
                          !.at = "ready"]]
    /\ UNCHANGED modesFrame
    /\ UNCHANGED parseVars
    /\ UNCHANGED execVars

\* llm.chat raises: handle_turn has no try, the exception leaves it and
\* nothing more is done.
LlmRaises(mode) ==
    /\ handler[mode] # NONE
    /\ handler[mode].at = "llm.chat"
    /\ handler' = [handler EXCEPT ![mode] =
            [handler[mode] EXCEPT !.failed = @ + 1, !.at = "ready"]]
    /\ UNCHANGED modesFrame
    /\ UNCHANGED parseVars
    /\ UNCHANGED execVars

(***************************************************************************)
(* Specifications                                                          *)
(***************************************************************************)

\* No call has been made yet: the guard of the entry points, stated before
\* the choice of their inputs.
Idle == pc = "idle"

\* The parser and the validator over every raw text of RawInputs.
NextParse ==
    \/ Idle /\ \E raw \in RawInputs : ParseLlmOutput(raw)
    \/ \E p \in BuiltParsedCommands : NewParsedCommand(p)
    \/ \E k \in Catalogs : ValidateAgainstCatalog(k)
    \/ ParseCommandAgain
    \/ ValidateAgain

SpecParse == Init /\ [][NextParse]_vars

\* A ConversationHistory under every sequence of add and clear.
NextHistory ==
    \/ \E n \in MaxTurnsValues : NewConversationHistory(n)
    \/ \E role \in Roles : Add(role)
    \/ Clear

SpecHistory == Init /\ [][NextHistory]_vars

\* The handlers of the two modes, turn by turn.
NextModes ==
    \/ \E m \in Modes, n \in HandlerMaxTurns : NewModeHandler(m, n)
    \/ \E m \in Modes : HandleTurn(m)
    \/ \E m \in Modes : LlmReplies(m)
    \/ \E m \in Modes : LlmRaises(m)

SpecModes == Init /\ [][NextModes]_vars

\* The whole pipeline, and the executor called directly.
Next ==
    \/ \E raw \in LLM_OUTPUTS : ParseLlmOutput(raw)
    \/ \E p \in BuiltParsedCommands : NewParsedCommand(p)
    \/ \E k \in Catalogs : ValidateAgainstCatalog(k)
    \/ \E t \in Timeouts, c \in Cwds : ExecuteParsedCommand(t, c)
    \/ Idle /\ \E s \in ChainInputs, t \in Timeouts, c \in Cwds : ExecuteChain(s, t, c)
    \/ Idle /\ \E s \in CommandInputs, t \in Timeouts, c \in Cwds : ExecuteCommand(s, t, c)
    \/ BeginExecuteCommand
    \/ SpawnEmptyArgv
    \/ \E why \in SpawnErrors(cwd) : SpawnFails(why)
    \/ SpawnStarts
    \/ Tick
    \/ \E o \in ProcessOutcomes : ProcessExits(o)
    \/ TimeoutExpired

Spec == Init /\ [][Next]_vars

(***************************************************************************)
(* Claims                                                                  *)
(***************************************************************************)

\* The call in progress is a chain: execute_chain, directly or through
\* execute_parsed_command.
InChain == entry \in {"execute_chain", "execute_parsed_command"}

\* C1: execute_chain halts on the first failure.  Of the n segments of a
\* chain, a result with success=false is the last result and ends the call,
\* every result before it has success=true, no child process is ever spawned
\* for a segment that follows a failed or missing result, and a call that
\* returns with every result successful returns exactly n results.
C1_HaltOnFirstFailure ==
    InChain =>
        LET n == Len(commands)
            m == Len(results)
        IN  /\ m <= n
            /\ \A k \in 1..m :
                 ~results[k].success =>
                     /\ k = m
                     /\ pc = "returned"
                     /\ \A j \in 1..(k - 1) : results[j].success
                     /\ \A i \in 1..Len(procs) : procs[i].segment <= k
            /\ \A i \in 1..Len(procs) :
                 /\ procs[i].segment <= n
                 /\ \A j \in 1..(procs[i].segment - 1) : j <= m /\ results[j].success
            /\ (pc = "returned" /\ \A k \in 1..m : results[k].success) => m = n

\* C1 witness: a chain of three segments whose second segment ran and failed
\* has returned two results.
C1_Witness ==
    /\ entry = "execute_chain"
    /\ pc = "returned"
    /\ Len(commands) = 3
    /\ Len(results) = 2
    /\ results[1].success
    /\ ~results[2].success
    /\ Len(procs) = 2

\* A disallowed metacharacter occurs in s: ';', '|', a backtick, or "$(".
HasMetachar(s) ==
    \/ \E i \in 1..Len(s) : s[i] = ";" \/ s[i] = "|" \/ s[i] = BQ
    \/ \E i \in 1..(Len(s) - 1) : s[i] = "$" /\ s[i + 1] = "("

LIT_REJECTED == <<"r", "e", "j", "e", "c", "t", "e", "d">>

\* C2: a command string that holds ';', '|', a backtick or "$(" anywhere is
\* rejected before tokenization and before any spawn: its result has
\* success=false, return_code=-1, empty stdout, a stderr containing
\* 'rejected' and the input as command, and no child process exists for it.
C2_MetacharactersRejected ==
    /\ \A k \in 1..Len(results) :
         HasMetachar(commands[k]) =>
             /\ results[k].success = FALSE
             /\ results[k].return_code = -1
             /\ results[k].stdout = <<>>
             /\ Contains(results[k].stderr, LIT_REJECTED)
             /\ results[k].command = commands[k]
    /\ \A i \in 1..Len(procs) : ~HasMetachar(commands[procs[i].segment])
    /\ pc \in {"spawn", "running"} => ~HasMetachar(commands[idx])
    /\ (pc = "raised" /\ commands # <<>>) => ~HasMetachar(commands[idx])

\* C2 witness: execute_command has returned for a string whose only
\* metacharacter is inside quotes.
C2_Witness ==
    /\ entry = "execute_command"
    /\ pc = "returned"
    /\ commands = <<<<"l", "s", " ", "'", "a", "|", "b", "'">>>>
    /\ ~results[1].success
    /\ procs = <<>>

LIT_CANNOT_EXECUTE == <<"C", "a", "n", "n", "o", "t", " ", "e", "x", "e", "c", "u", "t", "e", " ", "i", "n", "v", "a", "l", "i", "d", " ", "c", "o", "m", "m", "a", "n", "d">>

EndsWith(s, suffix) ==
    /\ Len(suffix) <= Len(s)
    /\ SubSeq(s, Len(s) - Len(suffix) + 1, Len(s)) = suffix

\* C3: execute_parsed_command on a ParsedCommand with is_valid=false raises
\* ValueError with 'Cannot execute invalid command' followed by the rejection
\* reason, and nothing is run: no segment, no result, no child process,
\* whatever the command field holds.
C3_InvalidNeverExecuted ==
    (entry = "execute_parsed_command" /\ ~arg.is_valid) =>
        /\ pc = "raised"
        /\ raised # NONE
        /\ raised.type = "ValueError"
        /\ StartsAt(raised.message, LIT_CANNOT_EXECUTE, 1)
        /\ EndsWith(raised.message, arg.rejection_reason)
        /\ Len(raised.message) >= Len(LIT_CANNOT_EXECUTE) + Len(arg.rejection_reason)
        /\ commands = <<>>
        /\ results = <<>>
        /\ procs = <<>>

\* C3 witness: the guard has raised for an invalid ParsedCommand whose
\* command field is not empty.
C3_Witness ==
    /\ entry = "execute_parsed_command"
    /\ pc = "raised"
    /\ ~arg.is_valid
    /\ arg.command # <<>>

\* The ParsedCommand in hand is the validator's answer to a valid input and
\* a loaded catalog.
Validating == pc = "validated" /\ parsed.is_valid /\ known # <<>>

\* The positions, among the segments of the validated command, of those whose
\* first token is not a known command.
UnknownSegments ==
    LET segs == ChainSegments(parsed.command)
    IN  {k \in 1..Len(segs) : FirstToken(segs[k]) \notin Range(known)}

UnknownToken(k) == FirstToken(ChainSegments(parsed.command)[k])

\* The lists that hold the elements of xs, each as often as xs does, in
\* non-decreasing order.
Count(xs, x) == Cardinality({i \in 1..Len(xs) : xs[i] = x})

SortedListings(xs) ==
    {l \in [1..Len(xs) -> Range(xs)] :
        /\ \A x \in Range(xs) : Count(l, x) = Count(xs, x)
        /\ \A i \in 1..Len(l), j \in 1..Len(l) : i < j => ~StrLess(l[j], l[i])}

LIT_COMMA_SPACE == <<",", " ">>

\* C4: for a valid ParsedCommand and a non-empty known_commands,
\* validate_against_catalog returns its input unchanged when the first token
\* of every segment is known; otherwise it returns a new, invalid
\* ParsedCommand whose rejection_reason names the first unknown token from
\* the left (and no other unknown token) and ends with the known commands
\* listed in sorted order.
C4_UnknownCommandRejected ==
    Validating =>
        IF UnknownSegments = {}
        THEN validated = parsed
        ELSE /\ validated.is_valid = FALSE
             /\ validated # parsed
             /\ Contains(validated.rejection_reason, Repr(UnknownToken(Min(UnknownSegments))))
             /\ \A k \in UnknownSegments :
                  UnknownToken(k) # UnknownToken(Min(UnknownSegments)) =>
                      ~Contains(validated.rejection_reason, Repr(UnknownToken(k)))
             /\ \E l \in SortedListings(known) :
                  EndsWith(validated.rejection_reason, Join(l, LIT_COMMA_SPACE))

\* C4 witness: a chain with two different unknown first tokens was validated
\* against a catalog of two names given out of order.
C4_Witness ==
    /\ Validating
    /\ Len(known) = 2
    /\ StrLess(known[2], known[1])
    /\ Cardinality({UnknownToken(k) : k \in UnknownSegments}) >= 2

\* C5: validate_against_catalog passes its input through unchanged when the
\* input has is_valid=false, whatever the catalog, and when known_commands is
\* empty, whatever the command.
C5_PassThrough ==
    (pc = "validated" /\ (~parsed.is_valid \/ known = <<>>)) => validated = parsed

\* C5 witness: a valid chained command was validated against the empty
\* catalog.
C5_Witness ==
    /\ pc = "validated"
    /\ known = <<>>
    /\ parsed.is_valid
    /\ Len(ChainSegments(parsed.command)) >= 2
    /\ validated = parsed

\* C6: every failure is returned as data: the only exception that leaves the
\* core is the ValueError of execute_parsed_command's is_valid guard.
C6_OnlyTheGuardRaises ==
    raised # NONE =>
        /\ entry = "execute_parsed_command"
        /\ ~arg.is_valid
        /\ raised.type = "ValueError"

LIT_TIMED_OUT_AFTER == <<"t", "i", "m", "e", "d", " ", "o", "u", "t", " ", "a", "f", "t", "e", "r", " ">>

LIT_SECONDS == <<" ", "s", "e", "c", "o", "n", "d", "s">>

\* C7: a child that has not ended when its timeout has passed is killed, and
\* the result is success=false, return_code=-1, stderr 'timed out after
\* <timeout> seconds'.  Every child of a chain gets the call's full timeout,
\* counted from its own start; the timed-out segment is the last result of
\* the chain and no later segment is started.
C7_TimeoutIsReturned ==
    \A i \in 1..Len(procs) :
        LET p == procs[i] IN
        /\ p.timeout = timeout
        /\ p.status = "running" =>
             i = Len(procs) /\ pc = "running" /\ clock - p.started <= p.timeout
        /\ p.status = "exited" => p.ended - p.started < p.timeout
        /\ p.status = "killed" =>
             /\ p.ended - p.started = p.timeout
             /\ i = Len(procs)
             /\ pc = "returned"
             /\ Len(results) = p.segment
             /\ results[p.segment].success = FALSE
             /\ results[p.segment].return_code = -1
             /\ Contains(results[p.segment].stderr,
                         LIT_TIMED_OUT_AFTER \o IntToStr(p.timeout) \o LIT_SECONDS)
             /\ results[p.segment].command = commands[p.segment]

\* C7 witness: in a chain of three segments the first child ran for a while
\* and ended, the second was killed at its timeout, and the chain returned.
C7_Witness ==
    /\ InChain
    /\ Len(commands) = 3
    /\ Len(procs) = 2
    /\ procs[1].status = "exited"
    /\ procs[1].ended > procs[1].started
    /\ procs[2].status = "killed"
    /\ pc = "returned"

\* The cleaned text of parse_llm_output: after fence stripping and trimming.
Cleaned(raw) == Strip(_strip_fences(raw))

FromParser == origin = "parse_llm_output"

\* The phrases of the refusal patterns, in lower case.
RefusalPhrases ==
    { <<"i", "'", "m", " ", "s", "o", "r", "r", "y">>,
      <<"i", "'", "m", " ", "u", "n", "a", "b", "l", "e">>,
      <<"i", "'", "m", " ", "n", "o", "t", " ", "a", "b", "l", "e">>,
      <<"i", " ", "a", "m", " ", "s", "o", "r", "r", "y">>,
      <<"i", " ", "a", "m", " ", "u", "n", "a", "b", "l", "e">>,
      <<"i", " ", "a", "m", " ", "n", "o", "t", " ", "a", "b", "l", "e">>,
      <<"d", "o", "e", "s", "n", "'", "t", " ", "m", "a", "t", "c", "h">>,
      <<"d", "o", "e", "s", " ", "n", "o", "t", " ", "m", "a", "t", "c", "h">>,
      <<"d", "o", "n", "'", "t", " ", "m", "a", "t", "c", "h">>,
      <<"d", "o", " ", "n", "o", "t", " ", "m", "a", "t", "c", "h">>,
      <<"n", "o", " ", "m", "a", "t", "c", "h", "i", "n", "g", " ", "c", "o", "m", "m", "a", "n", "d">>,
      <<"n", "o", " ", "a", "v", "a", "i", "l", "a", "b", "l", "e", " ", "c", "o", "m", "m", "a", "n", "d">>,
      <<"n", "o", " ", "v", "a", "l", "i", "d", " ", "c", "o", "m", "m", "a", "n", "d">>,
      <<"c", "a", "n", "n", "o", "t", " ", "f", "i", "n", "d">>,
      <<"c", "a", "n", "n", "o", "t", " ", "i", "d", "e", "n", "t", "i", "f", "y">>,
      <<"c", "a", "n", "n", "o", "t", " ", "d", "e", "t", "e", "r", "m", "i", "n", "e">>,
      <<"i", " ", "c", "a", "n", "'", "t">>,
      <<"i", " ", "c", "a", "n", "n", "o", "t">> }

IsRefusal(text) == \E ph \in RefusalPhrases : Contains(LowerStr(text), ph)

\* C8: whenever the cleaned text holds a refusal phrase, in any case and
\* anywhere, parse_llm_output returns is_valid=false, an empty command and
\* the cleaned text as rejection_reason.
C8_RefusalIsNeverACommand ==
    (FromParser /\ IsRefusal(Cleaned(parsed.raw))) =>
        /\ parsed.is_valid = FALSE
        /\ parsed.command = <<>>
        /\ parsed.rejection_reason = Cleaned(parsed.raw)

\* C8 witness: a refusal in upper case that follows other text inside a
\* fenced block was parsed.
C8_Witness ==
    /\ FromParser
    /\ Contains(parsed.raw, FENCE)
    /\ IsRefusal(Cleaned(parsed.raw))
    /\ ~IsRefusal(SubSeq(Cleaned(parsed.raw), 1, 3))
    /\ Cleaned(parsed.raw) # LowerStr(Cleaned(parsed.raw))
    /\ parsed.rejection_reason # parsed.raw

AllSpace(s) == \A i \in 1..Len(s) : IsSpace(s[i])

\* The first pair of fences of raw encloses nothing but white space.
FirstBlockBlank(raw) ==
    LET i == Find(raw, FENCE, 1)
        j == IF i = 0 THEN 0 ELSE Find(raw, FENCE, i + Len(FENCE))
    IN  i # 0 /\ j # 0 /\ AllSpace(SubSeq(raw, i + Len(FENCE), j - 1))

LIT_EMPTY == <<"e", "m", "p", "t", "y">>

\* C9: when nothing is left after fence stripping and trimming (an empty or
\* white-space raw text, or a first fenced block that is empty or white
\* space), parse_llm_output returns is_valid=false, an empty command and a
\* rejection_reason containing 'empty' in some case.
C9_EmptyOutputRejected ==
    (FromParser /\ (\/ Cleaned(parsed.raw) = <<>>
                    \/ AllSpace(parsed.raw)
                    \/ FirstBlockBlank(parsed.raw))) =>
        /\ parsed.is_valid = FALSE
        /\ parsed.command = <<>>
        /\ Contains(LowerStr(parsed.rejection_reason), LIT_EMPTY)

\* C9 witness: a raw text with a command outside a blank fenced block was
\* parsed.
C9_Witness ==
    /\ FromParser
    /\ FirstBlockBlank(parsed.raw)
    /\ \E i \in 1..Len(parsed.raw) : IsWord(parsed.raw[i])
    /\ ~parsed.is_valid

\* The inner content of the first fenced block of raw, trimmed, or raw
\* trimmed when it has no complete block.  The language tag is the run of
\* word characters after the opening fence when white space or the closing
\* fence ends it; a newline right after the tag belongs to the opening line.
FencedContent(raw) ==
    LET open == Find(raw, FENCE, 1)
        tagEnd == WordRunEnd(raw, open + Len(FENCE))
        tagged == /\ tagEnd <= Len(raw)
                  /\ IsSpace(raw[tagEnd]) \/ StartsAt(raw, FENCE, tagEnd)
        start == IF ~tagged THEN open + Len(FENCE)
                 ELSE IF raw[tagEnd] = "\n" THEN tagEnd + 1 ELSE tagEnd
        close == IF open = 0 THEN 0 ELSE Find(raw, FENCE, start)
    IN  IF close = 0 THEN Strip(raw) ELSE Strip(SubSeq(raw, start, close - 1))

\* C10: the cleaned text of parse_llm_output is the trimmed inner content of
\* the first fenced block, with or without a language tag and whether or not
\* a newline follows the opening fence, and the trimmed raw text when there
\* is no complete block.
C10_FenceStripping ==
    FromParser => Cleaned(parsed.raw) = FencedContent(parsed.raw)

\* C11: parsing is idempotent on cleaned text.  When parse_llm_output(x) is
\* valid with command c, parse_llm_output(c) is valid, its command is c, its
\* raw is c and it carries no rejection reason.
C11_ParsingIsIdempotent ==
    (pc = "reparsed") =>
        /\ reparsed.is_valid
        /\ reparsed.command = parsed.command
        /\ reparsed = ParsedCommand(parsed.command, parsed.command, TRUE, <<>>)

\* A fenced and padded raw text was parsed, then its command parsed again.
C11_Witness ==
    /\ pc = "reparsed"
    /\ Contains(llm_output, FENCE)
    /\ Len(parsed.command) < Len(llm_output) - 2 * Len(FENCE)
    /\ reparsed.command = parsed.command

\* C12: the raw text is preserved and no value is altered in place.  The
\* ParsedCommand parse_llm_output returns carries the text it was given as
\* raw, whichever the outcome (valid, empty, refusal); the value the
\* validator returns carries the raw of its input; and the validator's step
\* leaves its input ParsedCommand as it was.
C12_RawPreserved ==
    /\ [](FromParser => parsed.raw = llm_output)
    /\ [](pc = "validated" => validated.raw = parsed.raw)
    /\ [][pc' = "validated" => parsed' = parsed]_vars

\* The validator rejected a command that the parser had taken out of a
\* fenced text: a new value with the raw text of the LLM.
C12_Witness ==
    /\ pc = "validated"
    /\ FromParser
    /\ parsed.is_valid /\ ~validated.is_valid
    /\ validated # parsed
    /\ validated.raw = llm_output
    /\ llm_output # parsed.command

\* The child process of the i-th result ran to completion.
RanToCompletion(i) ==
    \E k \in 1..Len(procs) : procs[k].segment = i /\ procs[k].status = "exited"

\* C13: in every ExecutionResult of execute_command, success is true if and
\* only if a child process ran to completion with exit code 0; a result with
\* success=true has return_code 0, and every other result (rejected,
\* unparsable, timed out, not found, non-zero exit) has success=false and a
\* return_code other than 0.
C13_SuccessIffExitZero ==
    \A i \in 1..Len(results) :
        /\ results[i].success <=> (RanToCompletion(i) /\ results[i].return_code = 0)
        /\ results[i].success => results[i].return_code = 0
        /\ ~results[i].success => results[i].return_code # 0

\* A chain whose first child exited with 0 and whose second exited with 1.
C13_Witness ==
    /\ pc = "returned"
    /\ Len(results) = 2
    /\ results[1].success /\ results[1].return_code = 0
    /\ ~results[2].success /\ results[2].return_code = 1
    /\ RanToCompletion(1) /\ RanToCompletion(2)

\* The last result execute_command returned.
LastResult == results[Len(results)]

\* C14: when the executable named by argv[0] does not exist, execute_command
\* does not raise: it returns a result with success=false, return_code=127
\* and a stderr that names that program (by its repr), and no child process
\* has run.
C14_NotFoundIsReturned ==
    (oserror = "executable missing") =>
        /\ pc = "returned"
        /\ raised = NONE
        /\ results # <<>>
        /\ ~LastResult.success
        /\ LastResult.return_code = 127
        /\ Contains(LastResult.stderr, Repr(argv[1]))
        /\ LastResult.command = commands[idx]
        /\ \A k \in 1..Len(procs) : procs[k].segment # idx

\* The second command of a chain names a program that does not exist.
C14_Witness ==
    /\ oserror = "executable missing"
    /\ InChain
    /\ Len(results) = 2
    /\ results[1].success
    /\ results[2].return_code = 127
    /\ argv[1] # <<>>

LIT_PARSE == <<"p", "a", "r", "s", "e">>

\* C15: a command whose tokenization fails (an unbalanced quote) is never
\* spawned and never raises: its result has success=false and return_code=-1,
\* with a stderr that describes the parse error; when the command holds a
\* disallowed metacharacter as well, the metacharacter check comes first and
\* the stderr is the 'rejected' one.
C15_TokenizationFailureIsReturned ==
    /\ \A i \in 1..Len(results) :
            ~ShlexSplit(results[i].command).ok =>
                /\ ~results[i].success
                /\ results[i].return_code = -1
                /\ \A k \in 1..Len(procs) : procs[k].segment # i
                /\ IF HasMetachar(results[i].command)
                   THEN /\ Contains(results[i].stderr, LIT_REJECTED)
                        /\ ~Contains(results[i].stderr, LIT_PARSE)
                   ELSE /\ Contains(results[i].stderr, LIT_PARSE)
                        /\ Contains(results[i].stderr, ShlexSplit(results[i].command).err)
    /\ (pc \in {"spawn", "running", "raised"} /\ commands # <<>>) =>
            ShlexSplit(commands[idx]).ok

\* The second command of a chain has an unbalanced quote.
C15_Witness ==
    /\ pc = "returned"
    /\ InChain
    /\ Len(results) = 2
    /\ results[1].success
    /\ ~ShlexSplit(results[2].command).ok
    /\ ~HasMetachar(results[2].command)
    /\ results[2].return_code = -1
    /\ Len(procs) = 1

\* execute_chain has been called, by the caller or by execute_parsed_command.
ChainStarted ==
    \/ entry = "execute_chain"
    \/ entry = "execute_parsed_command" /\ arg.is_valid

\* s, cut at every "&&", each piece trimmed, the empty pieces left out.
TrimmedPieces(s) ==
    LET pieces == Split(s, <<"&", "&">>)
        kept == {i \in 1..Len(pieces) : ~AllSpace(pieces[i])}
        nth(k) == CHOOSE i \in kept : Cardinality({j \in kept : j < i}) = k - 1
    IN  [k \in 1..Cardinality(kept) |-> Strip(pieces[nth(k)])]

\* C16: the segments of execute_chain are exactly the non-empty strings that
\* splitting the input on "&&" and trimming each piece gives.  The command
\* fields of the results are, in order, a prefix of that list, each child
\* process runs the tokens of its segment, and an empty list (an empty
\* input, or white space and "&&" only) returns an empty result list with no
\* error and no process.
C16_SegmentsOfTheChain ==
    ChainStarted =>
        LET segs == TrimmedPieces(chain_string) IN
        /\ commands = segs
        /\ \A i \in 1..Len(segs) : segs[i] # <<>> /\ Strip(segs[i]) = segs[i]
        /\ Len(results) <= Len(segs)
        /\ \A i \in 1..Len(results) : results[i].command = segs[i]
        /\ \A k \in 1..Len(procs) :
                procs[k].argv = ShlexSplit(segs[procs[k].segment]).argv
        /\ segs = <<>> =>
                pc = "returned" /\ results = <<>> /\ procs = <<>> /\ raised = NONE

\* A chain with a blank piece between two commands ran both commands.
C16_Witness ==
    /\ ChainStarted
    /\ pc = "returned"
    /\ Len(Split(chain_string, <<"&", "&">>)) = 3
    /\ Len(commands) = 2
    /\ Len(results) = 2
    /\ Len(procs) = 2

\* A chain of white space and "&&" only returned the empty list.
C16_WitnessEmpty ==
    /\ ChainStarted /\ chain_string # <<>>
    /\ pc = "returned"
    /\ results = <<>>

\* execute_parsed_command is running, or has run, a valid ParsedCommand.
Delegated == entry = "execute_parsed_command" /\ arg.is_valid

\* C17: for a valid ParsedCommand, execute_parsed_command(parsed, timeout,
\* cwd) is execute_chain(parsed.command, timeout, cwd).  The step that enters
\* it is the first step of execute_chain on parsed.command with the timeout
\* and cwd of the caller; from then on the chain's command_string is
\* parsed.command, its segments are those of parsed.command, and the timeout
\* and cwd of the caller are the ones of the chain and of every child
\* process it spawns.
C17_DelegatesToExecuteChain ==
    /\ [](Delegated =>
            /\ chain_string = arg.command
            /\ commands = ChainSegments(arg.command)
            /\ timeout = args.timeout /\ cwd = args.cwd
            /\ \A k \in 1..Len(procs) :
                    procs[k].timeout = args.timeout /\ procs[k].cwd = args.cwd)
    /\ [][(entry' = "execute_parsed_command" /\ entry # entry' /\ arg'.is_valid) =>
                StartChain(arg'.command, args'.timeout, args'.cwd)]_vars

\* A chain of two commands taken from a fenced LLM text ran through
\* execute_parsed_command with a cwd; both children got the caller's
\* timeout and cwd.
C17_Witness ==
    /\ Delegated
    /\ pc = "returned"
    /\ arg.raw # arg.command
    /\ Len(results) = 2
    /\ Len(procs) = 2
    /\ args.cwd # "None"
    /\ procs[2].cwd = args.cwd /\ procs[2].timeout = args.timeout

\* The messages of xs whose role is not 'system', in the order of xs.
NonSystem(xs) == SelectSeq(xs, LAMBDA m : m.role # "system")

\* The last n elements of xs (all of xs when it has fewer).
LastN(xs, n) == SubSeq(xs, Max({Len(xs) - n, 0}) + 1, Len(xs))

\* C18: a ConversationHistory with max_turns = N > 0 holds, after any
\* sequence of add calls, at most 2*N non-system messages, and they are the
\* 2*N most recently added non-system messages in the order they were
\* added; with max_turns = 0 no message is ever dropped.
C18_CapOnNonSystemMessages ==
    (history # NONE) =>
        /\ history.max_turns > 0 =>
                /\ Len(NonSystem(history.messages)) <= 2 * history.max_turns
                /\ NonSystem(history.messages) =
                        LastN(NonSystem(added), 2 * history.max_turns)
        /\ history.max_turns = 0 => history.messages = added

\* A history with a cap of one turn after four non-system messages: two are
\* left.
C18_Witness ==
    /\ history # NONE
    /\ history.max_turns = 1
    /\ Len(NonSystem(added)) = 4
    /\ Len(NonSystem(history.messages)) = 2

\* The messages of xs whose role is 'system', in the order of xs.
SystemOnly(xs) == SelectSeq(xs, LAMBDA m : m.role = "system")

\* C19: a ConversationHistory never drops a system message.  After any
\* sequence of add calls since it was created or cleared, every message
\* added with role 'system' is still in the list, whatever max_turns is
\* and however many non-system messages were trimmed; and the system
\* messages do not count toward the cap: with max_turns = N > 0 the list
\* holds 2*N non-system messages as soon as that many were added.
C19_SystemMessagesKept ==
    (history # NONE) =>
        /\ SystemOnly(history.messages) = SystemOnly(added)
        /\ history.max_turns > 0 =>
                Len(NonSystem(history.messages)) =
                    Min({2 * history.max_turns, Len(NonSystem(added))})

\* Two system messages, the second added after a user message, and three
\* non-system messages under a cap of one turn: one message was trimmed and
\* both system messages are there.
C19_Witness ==
    /\ history # NONE
    /\ history.max_turns = 1
    /\ Len(SystemOnly(added)) = 2
    /\ added[1].role = "user"
    /\ Len(NonSystem(added)) = 3
    /\ Len(history.messages) = 4

\* The roles of the messages of xs, in order.
RolesOf(xs) == [i \in 1..Len(xs) |-> xs[i].role]

\* 'system', then k times 'user', 'assistant'.
RECURSIVE SystemThenPairs(_)
SystemThenPairs(k) ==
    IF k = 0 THEN <<"system">> ELSE SystemThenPairs(k - 1) \o <<"user", "assistant">>

\* C20: handle_turn appends the user message, calls llm.chat with the
\* history that holds that user message already, appends the reply as an
\* assistant message and returns the reply.  After k turns that all
\* completed, k not above max_turns, the roles of the history are 'system'
\* followed by k pairs 'user', 'assistant'.  The handlers of different modes
\* never see each other's messages: a handler's history holds messages the
\* handler itself added and no other, and a step of one handler leaves the
\* other as it was.
C20_TurnOrder ==
    /\ [](\A m \in Modes : handler[m] # NONE =>
            LET h == handler[m] IN
            /\ h.at = "llm.chat" =>
                    /\ h.llm_messages = h.history.messages
                    /\ h.llm_messages[Len(h.llm_messages)] = Message("user", h.user_input)
            /\ (h.at = "ready" /\ h.failed = 0 /\ h.turns <= h.history.max_turns) =>
                    RolesOf(h.history.messages) = SystemThenPairs(h.turns)
            /\ \A i \in 1..Len(h.history.messages) :
                    /\ h.history.messages[i] \in Range(h.log)
                    /\ \A o \in Modes \ {m} :
                            handler[o] # NONE => h.history.messages[i] \notin Range(handler[o].log))
    /\ [][\A m \in Modes :
            /\ (handler[m] # NONE /\ handler'[m].turns = handler[m].turns + 1) =>
                    /\ handler[m].at = "llm.chat"
                    /\ handler'[m].history.messages[Len(handler'[m].history.messages)]
                            = Message("assistant", handler'[m].response)
                    /\ handler'[m].at = "ready"
            /\ (handler[m] # handler'[m]) =>
                    \A o \in Modes \ {m} : handler'[o] = handler[o]]_vars

\* Both handlers have completed two turns under a cap of two turns.
C20_Witness ==
    \A m \in Modes :
        /\ handler[m] # NONE
        /\ handler[m].at = "ready"
        /\ handler[m].history.max_turns = 2
        /\ handler[m].turns = 2 /\ handler[m].failed = 0
        /\ Len(handler[m].history.messages) = 5

\* The child processes that have not terminated.
Running == {k \in 1..Len(procs) : procs[k].status = "running"}

\* C21: within one execute_chain call at most one child process exists at
\* any time.  The only child that may be running is the last one spawned,
\* and while it runs the results of all the segments before it, and no
\* other, are recorded; a child whose result is recorded has terminated
\* (exited, or been killed on timeout); the children were spawned in the
\* order of their segments, each after the one before it had terminated.
C21_OneChildAtATime ==
    InChain =>
        /\ Cardinality(Running) <= 1
        /\ \A k \in Running :
                /\ k = Len(procs)
                /\ pc = "running"
                /\ Len(results) = procs[k].segment - 1
        /\ \A k \in 1..Len(procs) :
                procs[k].segment <= Len(results) =>
                    procs[k].status \in {"exited", "killed"}
        /\ \A k \in 1..Len(procs), l \in 1..Len(procs) :
                k < l =>
                    /\ procs[k].segment < procs[l].segment
                    /\ procs[k].status \in {"exited", "killed"}
                    /\ procs[k].ended <= procs[l].started

\* The third child of a chain is running; the first two have exited.
C21_Witness ==
    /\ InChain
    /\ pc = "running"
    /\ Len(procs) = 3
    /\ Running = {3}
    /\ Len(results) = 2
    /\ procs[1].ended > procs[1].started

\* p is well formed: invalid with a reason, or valid with no reason and a
\* command that is not empty and has no white space at either end.
WellFormed(p) ==
    IF p.is_valid
    THEN /\ p.rejection_reason = <<>>
         /\ p.command # <<>>
         /\ ~IsSpace(p.command[1]) /\ ~IsSpace(p.command[Len(p.command)])
    ELSE p.rejection_reason # <<>>

\* C22: every ParsedCommand that parse_llm_output returns, and every one
\* that validate_against_catalog returns for a parser output, has a
\* non-empty rejection_reason when is_valid=false, and an empty
\* rejection_reason with a non-empty, trimmed command when is_valid=true.
C22_ReasonIffInvalid ==
    FromParser =>
        /\ WellFormed(parsed)
        /\ pc = "validated" => WellFormed(validated)

\* The parser took a padded command for valid and the validator rejected
\* it with a reason.
C22_Witness ==
    /\ FromParser
    /\ pc = "validated"
    /\ Len(llm_output) > 0 /\ IsSpace(llm_output[1])
    /\ parsed.is_valid /\ parsed.rejection_reason = <<>>
    /\ ~validated.is_valid /\ Len(validated.rejection_reason) > Len(MSG_UNKNOWN)

\* C23: the command of a ParsedCommand is empty whenever is_valid is false,
\* for every invalid ParsedCommand the pipeline produces: by
\* parse_llm_output (empty output, refusal) and by validate_against_catalog
\* (unknown command).
C23_InvalidHasNoCommand ==
    FromParser =>
        /\ ~parsed.is_valid => parsed.command = <<>>
        /\ (pc = "validated" /\ ~validated.is_valid) => validated.command = <<>>

\* The child process of the i-th result was killed on its timeout.
KilledOnTimeout(i) ==
    \E k \in 1..Len(procs) : procs[k].segment = i /\ procs[k].status = "killed"

LIT_NOT_FOUND == <<"n", "o", "t", " ", "f", "o", "u", "n", "d">>

\* The i-th result reports a missing executable: the sentinel 127 with the
\* 'not found' message.
ReportsNotFound(i) ==
    results[i].return_code = 127 /\ Contains(results[i].stderr, LIT_NOT_FOUND)

\* C24: the return_code sentinels identify the kind of failure.  A result
\* has return_code=-1 only when its command was rejected for a
\* metacharacter, failed to tokenize, or timed out, and return_code=127
\* only when the executable was not found; a process that ran to
\* completion, and a failure caused by a cwd that does not exist, are never
\* reported with the sentinel and message of a missing executable.
C24_SentinelsIdentifyTheFailure ==
    \A i \in 1..Len(results) :
        /\ results[i].return_code = -1 =>
                \/ HasMetachar(results[i].command)
                \/ ~ShlexSplit(results[i].command).ok
                \/ KilledOnTimeout(i)
        /\ results[i].return_code = 127 =>
                i = Len(results) /\ oserror = "executable missing"
        /\ RanToCompletion(i) => ~ReportsNotFound(i)
        /\ (i = Len(results) /\ oserror = "cwd missing") => ~ReportsNotFound(i)

\* The call in progress is execute_parsed_command on the validator's valid
\* answer for a parsed LLM output and a catalog that is not empty.
ValidatedPipeline ==
    /\ entry = "execute_parsed_command"
    /\ FromParser
    /\ known # <<>>
    /\ arg = validated
    /\ validated.is_valid

\* C25: the end-to-end allow-list.  When execute_parsed_command runs the
\* valid answer of validate_against_catalog(parse_llm_output(raw),
\* known_commands), known_commands not empty, every segment it runs is one of
\* the segments the validator checked, and the program of every argv handed
\* to subprocess.run (argv[0]) is a member of known_commands.
C25_AllowList ==
    ValidatedPipeline =>
        /\ commands = ChainSegments(validated.command)
        /\ \A k \in 1..Len(commands) : FirstToken(commands[k]) \in Range(known)
        /\ (pc = "spawn" /\ argv # <<>>) => argv[1] \in Range(known)
        /\ \A k \in 1..Len(procs) : procs[k].argv[1] \in Range(known)

\* C26: validate_against_catalog is monotone and idempotent.  It never
\* answers valid for an invalid ParsedCommand, and validating its answer
\* once more against the same catalog gives that answer again.
C26_MonotoneAndIdempotent ==
    /\ (pc \in {"validated", "revalidated"} /\ ~parsed.is_valid) => ~validated.is_valid
    /\ (pc = "revalidated") =>
            /\ revalidated = validated
            /\ ~validated.is_valid => ~revalidated.is_valid

\* C26 witness: a command the validator turned down for an unknown token
\* has been validated a second time against the same catalog.
C26_Witness ==
    /\ pc = "revalidated"
    /\ known # <<>>
    /\ parsed.is_valid
    /\ ~validated.is_valid
    /\ revalidated = validated

\* C26 witness: an invalid ParsedCommand whose command names a catalog
\* entry has been validated twice and is still invalid.
C26_WitnessInvalid ==
    /\ pc = "revalidated"
    /\ known # <<>>
    /\ ~parsed.is_valid
    /\ parsed.command # <<>>
    /\ FirstToken(parsed.command) \in Range(known)
    /\ ~revalidated.is_valid

\* The first fenced block of raw: from the first fence to the end of the
\* next fence that begins after it; <<>> when raw has no such pair.
FirstBlock(raw) ==
    LET open == Find(raw, FENCE, 1)
        close == IF open = 0 THEN 0 ELSE Find(raw, FENCE, open + Len(FENCE))
    IN  IF close = 0 THEN <<>> ELSE SubSeq(raw, open, close + Len(FENCE) - 1)

\* The inner content of a fenced block: what stands between the opening
\* line (the fence, the word characters after it and one newline) and the
\* closing fence.
InnerContent(block) ==
    LET w == WordRunEnd(block, Len(FENCE) + 1)
        n == IF w <= Len(block) /\ block[w] = "\n" THEN w + 1 ELSE w
    IN  SubSeq(block, n, Len(block) - Len(FENCE))

\* Two results agree on command, is_valid and rejection_reason.
SameOutcome(p, q) ==
    /\ p.command = q.command
    /\ p.is_valid = q.is_valid
    /\ p.rejection_reason = q.rejection_reason

\* Some text surrounds the first fenced block of raw.
Surrounded(raw) == FirstBlock(raw) # <<>> /\ FirstBlock(raw) # raw

IndexOf(xs, m) ==
    IF \E i \in DOMAIN xs : xs[i] = m THEN CHOOSE i \in DOMAIN xs : xs[i] = m ELSE 0

\* The messages that xs and ys share stand in the same order in both.
SameRelativeOrder(xs, ys) ==
    \A i, j \in DOMAIN ys :
        (i < j /\ IndexOf(xs, ys[i]) # 0 /\ IndexOf(xs, ys[j]) # 0)
            => IndexOf(xs, ys[i]) < IndexOf(xs, ys[j])

\* C28: ConversationHistory.add appends.  After add(role, content), for
\* any role, 'system' included, and any max_turns, the added message is the
\* last element of the message list, and the messages that remain from
\* before the call keep their relative order.
C28_AddAppends ==
    [][(history # NONE /\ Len(added') = Len(added) + 1) =>
            /\ history'.messages # <<>>
            /\ history'.messages[Len(history'.messages)] = added'[Len(added')]
            /\ SameRelativeOrder(history.messages,
                                 SubSeq(history'.messages, 1, Len(history'.messages) - 1))]_vars

\* The first message of xs that is not a system message, if xs has one, is a
\* user message.
StartsWithUser(xs) ==
    NonSystem(xs) # <<>> => NonSystem(xs)[1].role = "user"

\* C29: the history passed to the LLM consists of whole exchanges.  With
\* max_turns = N > 0 and the messages added in turn as user, assistant, as
\* handle_turn adds them, the first non-system message kept is a user
\* message at every llm.chat call and after every add: trimming leaves no
\* assistant reply whose user message was dropped.
C29_WholeExchanges ==
    \A m \in Modes :
        (handler[m] # NONE /\ handler[m].history.max_turns > 0 /\ handler[m].failed = 0) =>
            /\ StartsWithUser(handler[m].history.messages)
            /\ handler[m].at = "llm.chat" => StartsWithUser(handler[m].llm_messages)

\* The roles of xs are 'user', 'assistant', 'user', 'assistant', ...
Alternates(xs) ==
    /\ Len(xs) % 2 = 0
    /\ \A i \in DOMAIN xs : xs[i].role = IF i % 2 = 1 THEN "user" ELSE "assistant"

\* C30: handle_turn leaves the history unchanged on failure.  When llm.chat
\* raises during handle_turn, the history after the call is the history
\* before it, so the user message of the failed call is not in it; and
\* after any sequence of turns that succeeded or failed the non-system
\* messages alternate user, assistant.
C30_FailureLeavesHistoryUnchanged ==
    /\ [](\A m \in Modes :
            (handler[m] # NONE /\ handler[m].at = "ready" /\ handler[m].history.max_turns >= 0) =>
                Alternates(NonSystem(handler[m].history.messages)))
    /\ [][\A m \in Modes :
            (handler[m] # NONE /\ handler'[m].failed = handler[m].failed + 1) =>
                Message("user", handler[m].user_input)
                    \notin Range(handler'[m].history.messages)]_vars

====
